---- MODULE Spec2Model ----
(***************************************************************************)
(* A model of shiv's bootstrap (src/shiv/bootstrap/__init__.py): the       *)
(* lock-guarded extraction of site-packages into the cache, the search     *)
(* path extension, the integrity check, the cache path resolution and the  *)
(* entry dispatch.                                                         *)
(***************************************************************************)
EXTENDS Integers, Sequences, FiniteSets, TLC

(***************************************************************************)
(* Bounds of the model.                                                    *)
(***************************************************************************)
NumProcs == 2
NumDeps == 2
MaxFaults == 1
MaxPathLen == 3
MaxPthDirs == 2
MaxContent == 1
MaxEnvLen == 3
MaxAdditional == 2
MaxCalls == 2

Procs == 1..NumProcs
NoProc == 0

\* The site-packages entries of the archive, and its listing: entry 0 stands
\* for a member outside site-packages (environment.json), which the
\* extraction loop skips.
Deps == 1..NumDeps
NonDep == 0
PycItem == 0
Infolist == <<NonDep>> \o [i \in 1..NumDeps |-> i]

VARIABLES
    pc,          \* each process's position in bootstrap / extract_site_packages
    force,       \* env.force_extract of each process
    compile_pyc, \* env.compile_pyc
    idx,         \* each process's position in archive.infolist()
    lock,        \* the process holding FileLock(lock), or NoProc
    lockFile,    \* whether the lock file exists
    parent,      \* whether target_path.parent exists
    target,      \* the directory target_path
    tmp,         \* the directory target_path_tmp
    preexisting, \* history: whether the cache was published before any run
    how,         \* history: how each process got past the extraction step
    wrote,       \* history: the processes that changed tmp or target
    fault,       \* history: where a process failed or was killed
    ctx          \* history: what had happened when the process started

\* The state of the other parts of bootstrap, each a record.
VARIABLES
    searchPath, \* the search path extension
    integrity,  \* the integrity check
    resolver,   \* the cache path resolution
    dispatcher, \* the preamble and the entry dispatch
    pipeline,   \* the order of the steps of bootstrap
    exporter    \* the export of the new entries to PYTHONPATH

\* sys.path
sys_path == searchPath.sys_path
\* the directories the cache's .pth files name, in order
pth_dirs == searchPath.pth_dirs
\* "start", then "extended"
path_pc == searchPath.path_pc
\* sys_path_before of bootstrap
sys_path_before == searchPath.sys_path_before
\* sys.path as site.addsitedir left it
sys_path_added == searchPath.sys_path_added
\* new_paths of bootstrap
new_paths == searchPath.new_paths

\* the content of each file below site_packages, or Missing
files == integrity.files
\* env.hashes: the hash recorded for a relative path, or NoHash
hashes == integrity.hashes
\* history: the files as they were extracted
orig == integrity.orig
\* history: the files modified since
changed == integrity.changed
\* "none", "ok", or the file the RuntimeError names
verdict == integrity.verdict
\* history: the file the last failed verification named
last_fail == integrity.last_fail

\* the archive's resolved path, as its components
archive_path == resolver.archive_path
\* env.root, as its pieces; empty when not set
root_dir == resolver.root_dir
\* env.platform_root
platform_compat == resolver.platform_compat
\* env.build_id
build_id == resolver.build_id
\* os.environ, for the variables cache_path reads
environ == resolver.environ
\* sys.platform
platform == resolver.platform
\* how many leading components of the system cache's site-packages path exist
fs_extant == resolver.fs_extant
\* the lengths of its prefixes the user may write to
fs_writable == resolver.fs_writable
\* "start", then "resolved"
cache_pc == resolver.cache_pc
\* what cache_path returned
cache_result == resolver.cache_result
\* whether platform_cache was called
platform_called == resolver.platform_called

\* env.interpreter
env_interpreter == dispatcher.env_interpreter
\* env.entry_point, or PyNone
env_entry_point == dispatcher.env_entry_point
\* env.script, or PyNone
env_script == dispatcher.env_script
\* env.preamble, or PyNone
env_preamble == dispatcher.env_preamble
\* the names of the variables in os.environ
os_environ == dispatcher.os_environ
\* "start", "select", inside run "run", "scrubbed" and "called", then
\* "exited", "interactive" or "terminated"
disp_pc == dispatcher.disp_pc
\* the module argument of run: "entry_point", "script", or "none"
run_module == dispatcher.run_module
\* history: os.environ when the dispatch started
environ_before == dispatcher.environ_before
\* history: os.environ when module() was called
environ_at_call == dispatcher.environ_at_call
\* history: what module() returned or raised
returned == dispatcher.returned
\* how the preamble ended
preamble_result == dispatcher.preamble_result
\* what the dispatcher invoked
invoked == dispatcher.invoked
\* the exit status of the process
exit_status == dispatcher.exit_status

\* env.force_extract
env_force_extract == pipeline.env_force_extract
\* env.no_modify
env_no_modify == pipeline.env_no_modify
\* env.extend_pythonpath
env_extend_pythonpath == pipeline.env_extend_pythonpath
\* whether env.preamble is set and not empty
has_preamble == pipeline.has_preamble
\* whether site_packages exists
cache_exists == pipeline.cache_exists
\* whether a source file of the cache fails the comparison of its hash
modified == pipeline.modified
\* the position of bootstrap
stage == pipeline.stage
\* history: the steps bootstrap has run, in order
log == pipeline.log
\* the error bootstrap ended with, or "none"
raised == pipeline.raised

\* os.environ["PYTHONPATH"], as its characters, or NoValue
pythonpath == exporter.pythonpath
\* additional_paths of extend_python_path
additional_paths == exporter.additional_paths
\* how many times extend_python_path has been applied
calls == exporter.calls
\* history: PYTHONPATH before the first application
pythonpath_before == exporter.before
\* history: PYTHONPATH after the first application
pythonpath_first == exporter.first

coreVars == <<pc, force, compile_pyc, idx, lock, lockFile, parent, target, tmp,
              preexisting, how, wrote, fault, ctx>>

\* Each part of bootstrap is run by its own specification; a step of one
\* part leaves the state of the other parts alone.
CoreOnly ==
    UNCHANGED <<searchPath, integrity, resolver, dispatcher, pipeline, exporter>>
PathOnly ==
    UNCHANGED <<coreVars, integrity, resolver, dispatcher, pipeline, exporter>>
VerifyOnly ==
    UNCHANGED <<coreVars, searchPath, resolver, dispatcher, pipeline, exporter>>
CacheOnly ==
    UNCHANGED <<coreVars, searchPath, integrity, dispatcher, pipeline, exporter>>
DispatchOnly ==
    UNCHANGED <<coreVars, searchPath, integrity, resolver, pipeline, exporter>>
PipelineOnly ==
    UNCHANGED <<coreVars, searchPath, integrity, resolver, dispatcher, exporter>>
ExportOnly ==
    UNCHANGED <<coreVars, searchPath, integrity, resolver, dispatcher, pipeline>>

(***************************************************************************)
(* Directories. A directory is absent, or holds a site-packages            *)
(* subdirectory with some of the archive's entries (and compiled bytecode).*)
(* nested: another directory was moved inside it.                          *)
(***************************************************************************)
Absent == [exists |-> FALSE, sp |-> FALSE, files |-> {}, pyc |-> FALSE,
           nested |-> FALSE]

Dirs == [exists : BOOLEAN, sp : BOOLEAN, files : SUBSET Deps, pyc : BOOLEAN,
         nested : BOOLEAN]

\* fileinfo.filename.startswith("site-packages")
StartsWithSitePackages(e) == e \in Deps

\* archive.extract(fileinfo.filename, d) and os.chmod: the member's file is
\* written below d, creating d and d/site-packages as needed.
ExtractMember(d, e) ==
    [d EXCEPT !.exists = TRUE, !.sp = TRUE, !.files = d.files \cup {e}]

\* site_packages.exists() on a directory
SitePackagesExists(d) == d.exists /\ d.sp

\* every dependency-tree entry of the archive is in the directory
Populated(d) == d.exists /\ d.sp /\ d.files = Deps /\ ~d.nested

\* what shutil.rmtree still has to remove inside the directory
RmItems(d) == d.files \cup (IF d.pyc THEN {PycItem} ELSE {})

(***************************************************************************)
(* The extraction pipeline of N concurrent processes.                      *)
(***************************************************************************)
\* the positions inside `with FileLock(lock):`
LockedPcs == {"check", "extract", "compile", "rmtree", "move"}
Terminal == {"done", "failed", "killed"}

FaultCount == Cardinality({p \in Procs : pc[p] \in {"failed", "killed"}})

\* a published cache directory
Published == [exists |-> TRUE, sp |-> TRUE, files |-> Deps, pyc |-> FALSE,
              nested |-> FALSE]

InitCore ==
    /\ pc = [p \in Procs |-> "start"]
    /\ force \in [Procs -> BOOLEAN]
    /\ compile_pyc \in BOOLEAN
    /\ idx = [p \in Procs |-> 0]
    /\ lock = NoProc
    /\ preexisting \in BOOLEAN
    /\ lockFile = preexisting
    /\ parent = preexisting
    /\ target = IF preexisting THEN Published ELSE Absent
    /\ tmp = Absent
    /\ how = [p \in Procs |-> "none"]
    /\ wrote = {}
    /\ fault = [p \in Procs |-> "none"]
    /\ ctx = [p \in Procs |-> [second |-> FALSE, afterKill |-> FALSE]]

\* FileLock: the lock can be taken when no process holds it
FileLockFree(l) == l = NoProc

\* FileLock.__exit__ / the death of the holder: the lock is given up
FileLockRelease(l, p) == IF l = p THEN NoProc ELSE l

LeaveWithKeepsLock(p) == lock' = lock

\* leaving the with block normally
LeaveWith(p) == lock' = FileLockRelease(lock, p)

UnwindKeepsLock(p) == lock' = lock

\* an error propagating out of extract_site_packages: the with statement
\* runs FileLock.__exit__ on the way out
Unwind(p) == lock' = FileLockRelease(lock, p)

PreCheckAlways(p) == TRUE

\* bootstrap: `if not site_packages.exists() or env.force_extract`
PreCheck(p) == ~SitePackagesExists(target) \/ force[p]

ReCheckAlways(p) == TRUE

\* extract_site_packages: `if not target_path.exists() or force`
ReCheck(p) == ~target.exists \/ force[p]

\* what the process finds before it when it starts: an earlier run with
\* force unset that ran to its end and nothing else under way (second); a
\* process killed between the end of its extraction loop and its move
\* (afterKill)
StartContext(p) ==
    [second |-> /\ \E q \in Procs \ {p} : pc[q] = "done" /\ ~force[q]
                /\ \A q \in Procs \ {p} :
                      \/ pc[q] = "start"
                      \/ pc[q] = "done" /\ ~force[q],
     afterKill |-> \E q \in Procs \ {p} :
                      /\ pc[q] = "killed"
                      /\ fault[q] \in {"compile", "rmtree", "move"}]

\* bootstrap, lines 319-330, and extract_site_packages up to the lock,
\* lines 245-251: the unlocked check for a first run, and the parent
\* directory made on the way in
BootstrapCheck(p) ==
    /\ CoreOnly
    /\ pc[p] = "start"
    /\ ctx' = [ctx EXCEPT ![p] = StartContext(p)]
    /\ IF PreCheck(p)
          THEN /\ pc' = [pc EXCEPT ![p] = "acquire"]
               /\ how' = [how EXCEPT ![p] = "entered"]
               /\ parent' = TRUE
          ELSE /\ pc' = [pc EXCEPT ![p] = "read"]
               /\ how' = [how EXCEPT ![p] = "precheck"]
               /\ UNCHANGED parent
    /\ UNCHANGED <<force, compile_pyc, idx, lock, lockFile, target, tmp,
                   preexisting, wrote, fault>>

AcquireWithoutWaiting(p) ==
    /\ CoreOnly
    /\ pc[p] = "acquire"
    /\ lock' = p
    /\ lockFile' = TRUE
    /\ pc' = [pc EXCEPT ![p] = "check"]
    /\ UNCHANGED <<force, compile_pyc, idx, parent, target, tmp, preexisting,
                   how, wrote, fault, ctx>>

\* `with FileLock(lock):` blocks until the lock is free
Acquire(p) ==
    /\ CoreOnly
    /\ pc[p] = "acquire"
    /\ FileLockFree(lock)
    /\ lock' = p
    /\ lockFile' = TRUE
    /\ pc' = [pc EXCEPT ![p] = "check"]
    /\ UNCHANGED <<force, compile_pyc, idx, parent, target, tmp, preexisting,
                   how, wrote, fault, ctx>>

\* the check made again under the lock, line 257
Recheck(p) ==
    /\ CoreOnly
    /\ pc[p] = "check"
    /\ IF ReCheck(p)
          THEN /\ pc' = [pc EXCEPT ![p] = "extract"]
               /\ idx' = [idx EXCEPT ![p] = 1]
               /\ UNCHANGED <<lock, how>>
          ELSE /\ pc' = [pc EXCEPT ![p] = "read"]
               /\ how' = [how EXCEPT ![p] = "recheck"]
               /\ LeaveWith(p)
               /\ UNCHANGED idx
    /\ UNCHANGED <<force, compile_pyc, lockFile, parent, target, tmp,
                   preexisting, wrote, fault, ctx>>

WriteMemberInPlace(p, e) ==
    /\ target' = ExtractMember(target, e)
    /\ tmp' = tmp

\* archive.extract(fileinfo.filename, target_path_tmp) and os.chmod
WriteMember(p, e) ==
    /\ tmp' = ExtractMember(tmp, e)
    /\ target' = target

\* `if target_path.exists():`, line 272
AfterCompile == IF target.exists THEN "rmtree" ELSE "move"

\* the position after the loop over archive.infolist(), line 268
AfterLoop == IF compile_pyc THEN "compile" ELSE AfterCompile

\* one iteration of the loop over archive.infolist(), lines 260-266
ExtractStep(p) ==
    /\ CoreOnly
    /\ pc[p] = "extract"
    /\ LET e == Infolist[idx[p]] IN
         IF StartsWithSitePackages(e)
            THEN WriteMember(p, e) /\ wrote' = wrote \cup {p}
            ELSE UNCHANGED <<target, tmp, wrote>>
    /\ idx' = [idx EXCEPT ![p] = idx[p] + 1]
    /\ pc' = [pc EXCEPT ![p] = IF idx[p] = Len(Infolist) THEN AfterLoop
                                ELSE "extract"]
    /\ UNCHANGED <<force, compile_pyc, lock, lockFile, parent, preexisting,
                   how, fault, ctx>>

\* compileall.compile_dir(target_path_tmp, ...), lines 268-269: its result
\* is not looked at
Compile(p) ==
    /\ CoreOnly
    /\ pc[p] = "compile"
    /\ \E ok \in BOOLEAN :
         tmp' = IF ok /\ tmp.exists THEN [tmp EXCEPT !.pyc = TRUE] ELSE tmp
    /\ wrote' = wrote \cup {p}
    /\ pc' = [pc EXCEPT ![p] = AfterCompile]
    /\ UNCHANGED <<force, compile_pyc, idx, lock, lockFile, parent, target,
                   preexisting, how, fault, ctx>>

\* shutil.rmtree(str(target_path)), lines 271-273, one removal at a time: the
\* files, then the subdirectory, then the directory itself
RmTree(p) ==
    /\ CoreOnly
    /\ pc[p] = "rmtree"
    /\ IF RmItems(target) # {}
          THEN /\ \E i \in RmItems(target) :
                    target' = IF i = PycItem
                                 THEN [target EXCEPT !.pyc = FALSE]
                                 ELSE [target EXCEPT !.files = @ \ {i}]
               /\ UNCHANGED pc
          ELSE IF target.sp \/ target.nested
                  THEN /\ target' = [target EXCEPT !.sp = FALSE,
                                                    !.nested = FALSE]
                       /\ UNCHANGED pc
                  ELSE /\ target' = Absent
                       /\ pc' = [pc EXCEPT ![p] = "move"]
    /\ wrote' = wrote \cup {p}
    /\ UNCHANGED <<force, compile_pyc, idx, lock, lockFile, parent, tmp,
                   preexisting, how, fault, ctx>>

\* shutil.move(str(target_path_tmp), str(target_path)), line 276, and the
\* end of the with block. The two are siblings, so the move is one rename;
\* a destination that is a directory receives the source inside it.
Move(p) ==
    /\ CoreOnly
    /\ pc[p] = "move"
    /\ tmp.exists
    /\ target' = IF target.exists THEN [target EXCEPT !.nested = TRUE] ELSE tmp
    /\ tmp' = Absent
    /\ wrote' = wrote \cup {p}
    /\ how' = [how EXCEPT ![p] = "extracted"]
    /\ pc' = [pc EXCEPT ![p] = "read"]
    /\ LeaveWith(p)
    /\ UNCHANGED <<force, compile_pyc, idx, lockFile, parent, preexisting,
                   fault, ctx>>

\* the rest of bootstrap, lines 332-386, reads the cache
Finish(p) ==
    /\ CoreOnly
    /\ pc[p] = "read"
    /\ pc' = [pc EXCEPT ![p] = "done"]
    /\ UNCHANGED <<force, compile_pyc, idx, lock, lockFile, parent, target, tmp,
                   preexisting, how, wrote, fault, ctx>>

\* an error raised by a step of the with block (extract, chmod, compile_dir,
\* rmtree, move): it leaves what the step had done so far
Fail(p) ==
    /\ CoreOnly
    /\ pc[p] \in {"extract", "compile", "rmtree", "move"}
    /\ FaultCount < MaxFaults
    /\ \/ UNCHANGED <<tmp, wrote>>
       \/ /\ pc[p] = "extract"
          /\ StartsWithSitePackages(Infolist[idx[p]])
          /\ tmp' = ExtractMember(tmp, Infolist[idx[p]])
          /\ wrote' = wrote \cup {p}
    /\ Unwind(p)
    /\ fault' = [fault EXCEPT ![p] = pc[p]]
    /\ pc' = [pc EXCEPT ![p] = "failed"]
    /\ UNCHANGED <<force, compile_pyc, idx, lockFile, parent, target,
                   preexisting, how, ctx>>

\* the process is killed inside the with block; its lock is given up by its
\* death. (Killed elsewhere it leaves nothing behind in the cache.)
Kill(p) ==
    /\ CoreOnly
    /\ pc[p] \in LockedPcs
    /\ FaultCount < MaxFaults
    /\ lock' = FileLockRelease(lock, p)
    /\ fault' = [fault EXCEPT ![p] = pc[p]]
    /\ pc' = [pc EXCEPT ![p] = "killed"]
    /\ UNCHANGED <<force, compile_pyc, idx, lockFile, parent, target, tmp,
                   preexisting, how, wrote, ctx>>

\* the steps of a process that runs to its end without an error
Step(p) ==
    \/ BootstrapCheck(p)
    \/ Acquire(p)
    \/ Recheck(p)
    \/ ExtractStep(p)
    \/ Compile(p)
    \/ RmTree(p)
    \/ Move(p)
    \/ Finish(p)

NextCore ==
    \E p \in Procs :
        \/ BootstrapCheck(p)
        \/ Acquire(p)
        \/ Recheck(p)
        \/ ExtractStep(p)
        \/ Compile(p)
        \/ RmTree(p)
        \/ Move(p)
        \/ Finish(p)
        \/ Fail(p)
        \/ Kill(p)

(***************************************************************************)
(* The search path extension of bootstrap, lines 332-349.                  *)
(***************************************************************************)
None == -1

\* directories of the interpreter's own installation
SystemSitePackages == "/usr/lib/python3/site-packages"
SystemDistPackages == "/usr/lib/python3/dist-packages"

\* the cache's site-packages directory, and a directory one of its .pth
\* files names
CacheSitePackages == "/cache/app_1/site-packages"
PthDir == "/cache/app_1/site-packages/vendor"

\* what sys.path may hold before bootstrap
SysPathEntries ==
    {"", "/usr/lib/python3", SystemSitePackages, SystemDistPackages,
     CacheSitePackages}

\* what a .pth file of the cache may name
PthEntries == {PthDir, SystemDistPackages}

\* Path(part).stem
Stem(part) ==
    CASE part = "" -> ""
      [] part = "/usr/lib/python3" -> "python3"
      [] part = SystemSitePackages -> "site-packages"
      [] part = SystemDistPackages -> "dist-packages"
      [] part = CacheSitePackages -> "site-packages"
      [] part = PthDir -> "vendor"

SeqsUpTo(S, n) == UNION {[1..k -> S] : k \in 0..n}

Range(s) == {s[i] : i \in 1..Len(s)}

\* get_first_sitedir_index(): the index, from 0, of the first entry whose
\* stem is site-packages or dist-packages; None when the loop ends
GetFirstSitedirIndex(path) ==
    LET hits == {i \in 1..Len(path) :
                    Stem(path[i]) \in {"site-packages", "dist-packages"}}
    IN IF hits = {} THEN None
       ELSE (CHOOSE i \in hits : \A j \in hits : i <= j) - 1

\* Python's `x or y` on an index: None and 0 are both false
PyOr(x, y) == IF x = None \/ x = 0 THEN y ELSE x

\* append the entries of s that are not on the path yet, in order
RECURSIVE AppendUnknown(_, _)
AppendUnknown(path, s) ==
    IF s = <<>> THEN path
    ELSE AppendUnknown(IF Head(s) \in Range(path) THEN path
                       ELSE Append(path, Head(s)),
                       Tail(s))

\* site.addsitedir(sitedir): appends sitedir, then the directories its .pth
\* files name, each only when sys.path does not hold it yet
AddSiteDir(path, sitedir, pths) == AppendUnknown(path, <<sitedir>> \o pths)

\* sys.path[a:b], with indices from 0
Slice(s, a, b) == SubSeq(s, a + 1, b)

\* [p for p in s if p not in before]
RECURSIVE NotIn(_, _)
NotIn(s, before) ==
    IF s = <<>> THEN <<>>
    ELSE (IF Head(s) \in Range(before) THEN <<>> ELSE <<Head(s)>>)
         \o NotIn(Tail(s), before)

InitPath ==
    searchPath \in
        [sys_path : SeqsUpTo(SysPathEntries, MaxPathLen),
         pth_dirs : {s \in SeqsUpTo(PthEntries, MaxPthDirs) :
                        \A i, j \in 1..Len(s) : s[i] = s[j] => i = j},
         path_pc : {"start"},
         sys_path_before : {<<>>},
         sys_path_added : {<<>>},
         new_paths : {<<>>}]

\* bootstrap, lines 332-349
ExtendSearchPath ==
    /\ PathOnly
    /\ path_pc = "start"
    /\ LET length == Len(sys_path)
           index == PyOr(GetFirstSitedirIndex(sys_path), length)
           added == AddSiteDir(sys_path, CacheSitePackages, pth_dirs)
           reordered == Slice(added, 0, index)
                        \o Slice(added, length, Len(added))
                        \o Slice(added, index, length)
       IN searchPath' = [sys_path |-> reordered,
                         pth_dirs |-> pth_dirs,
                         path_pc |-> "extended",
                         sys_path_before |-> sys_path,
                         sys_path_added |-> added,
                         new_paths |-> NotIn(reordered, sys_path)]

NextPath == ExtendSearchPath

(***************************************************************************)
(* The integrity check, ensure_no_modify, lines 297-306.                   *)
(***************************************************************************)
\* the files below site_packages: two Python sources and one other file
PyFiles == {"a.py", "pkg/b.py"}
AllFiles == PyFiles \cup {"data.txt"}

Contents == 0..MaxContent
Missing == -1
NoHash == -1

\* hashlib.sha256(bytes).hexdigest(): different contents, different hashes
Sha256(c) == (c * 5 + 3) % 97

HashValues == {Sha256(c) : c \in Contents}

\* site_packages.rglob("**/*.py"): the Python sources that exist
Rglob == {f \in PyFiles : files[f] # Missing}

MismatchRecordedOnly(f) == hashes[f] # NoHash /\ Sha256(files[f]) # hashes[f]

\* sha256(path.read_bytes()).hexdigest() != hashes.get(relative path)
Mismatch(f) == Sha256(files[f]) # hashes[f]

\* the loop of ensure_no_modify over the files in the order rglob yields
\* them: the first mismatch raises, naming the file
RECURSIVE Scan(_)
Scan(order) ==
    IF order = <<>> THEN "ok"
    ELSE IF Mismatch(Head(order)) THEN Head(order)
    ELSE Scan(Tail(order))

\* the orders in which a directory walk may yield the files of S
Orders(S) ==
    {o \in [1..Cardinality(S) -> S] : \A i, j \in DOMAIN o : o[i] = o[j] => i = j}

InitVerify ==
    \E f0 \in [AllFiles -> Contents \cup {Missing}],
       h0 \in [PyFiles -> HashValues \cup {NoHash}] :
        integrity = [files |-> f0, hashes |-> h0, orig |-> f0, changed |-> {},
                     verdict |-> "none", last_fail |-> "none"]

\* a file of the cache is given another content
Modify(f, c) ==
    /\ VerifyOnly
    /\ files[f] # Missing
    /\ c # files[f]
    /\ c # orig[f]
    /\ integrity' = [integrity EXCEPT !.files[f] = c,
                                      !.changed = changed \cup {f},
                                      !.verdict = "none"]

\* a modified file is given its extracted content back
Restore(f) ==
    /\ VerifyOnly
    /\ files[f] # orig[f]
    /\ integrity' = [integrity EXCEPT !.files[f] = orig[f],
                                      !.verdict = "none"]

\* ensure_no_modify(site_packages, env.hashes)
EnsureNoModify ==
    /\ VerifyOnly
    /\ verdict = "none"
    /\ \E order \in Orders(Rglob) :
         integrity' = [integrity EXCEPT
                          !.verdict = Scan(order),
                          !.last_fail = IF Scan(order) = "ok" THEN last_fail
                                        ELSE Scan(order)]

NextVerify ==
    \/ \E f \in AllFiles, c \in Contents : Modify(f, c)
    \/ \E f \in AllFiles : Restore(f)
    \/ EnsureNoModify

(***************************************************************************)
(* The cache path resolution, lines 91-233. A path is the sequence of its  *)
(* components, a string the sequence of its pieces.                        *)
(***************************************************************************)
NoPath == <<"<None>">>
Home == <<"/", "home", "u">>

\* f"{name}_{build_id}"
NameBuild(name, build) ==
    CASE name = "app" /\ build = "1" -> "app_1"
      [] name = "app" /\ build = "2" -> "app_2"

\* archive_path.name
Name(path) == path[Len(path)]

IsPrefix(r, path) == Len(r) <= Len(path) /\ SubSeq(path, 1, Len(r)) = r

\* is_relative_to(path, root)
IsRelativeTo(path, root) == IsPrefix(root, path)

\* is_system_path(path): true, false, or None on another platform
IsSystemPath(path) ==
    CASE platform = "linux" ->
            IF ~IsRelativeTo(path, <<"/", "home">>)
               /\ ~IsRelativeTo(path, <<"/", "root">>) THEN "True" ELSE "False"
      [] platform = "darwin" ->
            IF ~IsRelativeTo(path, <<"/", "Users">>) THEN "True" ELSE "False"
      [] OTHER -> "None"

\* system_root()
SystemRoot ==
    CASE platform = "linux" -> <<"/", "var", "cache">>
      [] platform = "darwin" -> <<"/", "Library", "Caches">>
      [] OTHER -> NoPath

\* os.environ.get(name, default)
EnvironGet(name, default) ==
    IF name \in DOMAIN environ /\ environ[name].set THEN environ[name].value
    ELSE default

\* str.strip()
Strip(v) == SelectSeq(v, LAMBDA t : t # " ")

\* Path(...).expanduser()
ExpandUser(path) ==
    IF path # <<>> /\ Head(path) = "~" THEN Home \o Tail(path) ELSE path

\* user_root()
UserRoot ==
    LET pick(v, default) == IF Strip(v) # <<>> THEN Strip(v) ELSE default IN
    CASE platform = "win32" ->
            ExpandUser(pick(EnvironGet(<<"LOCALAPPDATA">>, <<>>),
                            <<"~", "AppData", "Local">>))
      [] platform = "linux" ->
            ExpandUser(pick(EnvironGet(<<"XDG_CACHE_HOME">>, <<>>),
                            <<"~", ".cache">>))
      [] platform = "darwin" -> ExpandUser(<<"~", "Library", "Caches">>)
      [] OTHER -> NoPath

\* path.exists(), for the prefixes of the system cache's site-packages path
PathExists(path) == Len(path) <= fs_extant

IsDirWriteableItself(path) == PathExists(path) /\ Len(path) \in fs_writable

\* is_dir_writeable(path): os.access(W_OK) on the nearest extant ancestor
RECURSIVE IsDirWriteable(_)
IsDirWriteable(path) ==
    IF ~PathExists(path) /\ Len(path) > 1
       THEN IsDirWriteable(SubSeq(path, 1, Len(path) - 1))
       ELSE Len(path) \in fs_writable

RootBranchPlatformFirst(root, compat) ==
    IF compat THEN "platform" ELSE IF root # <<>> THEN "explicit" ELSE "none"

\* the branch cache_path takes, lines 219-227
RootBranch(root, compat) ==
    IF root # <<>> THEN "explicit" ELSE IF compat THEN "platform" ELSE "none"

\* the explicit root, lines 220-223
ExplicitRoot(root) ==
    ExpandUser(IF Head(root) = "$" THEN EnvironGet(Tail(root), Tail(root))
               ELSE root)

RECURSIVE CachePath(_, _, _, _)

\* platform_cache(archive_path, build_id)
PlatformCache(archive, build) ==
    LET system_base == SystemRoot
        root == Append(system_base, Name(archive))
        cache == CachePath(archive, root, FALSE, build).path
        site_packages == Append(cache, "site-packages")
        user_base == UserRoot
    IN IF IsSystemPath(archive) = "True" /\ system_base # NoPath
          /\ (PathExists(site_packages) \/ IsDirWriteable(cache))
          THEN root
       ELSE IF user_base # NoPath THEN Append(user_base, Name(archive))
       ELSE NoPath

\* cache_path(archive_path, root_dir, platform_compat, build_id): the path
\* returned, and whether platform_cache was called on the way
CachePath(archive, root, compat, build) ==
    LET branch == RootBranch(root, compat)
        found == CASE branch = "explicit" -> ExplicitRoot(root)
                   [] branch = "platform" -> PlatformCache(archive, build)
                   [] OTHER -> NoPath
        base == IF found = NoPath THEN Append(Home, ".shiv") ELSE found
    IN [path |-> Append(base, NameBuild(Name(archive), build)),
        called |-> branch = "platform"]

ArchivePaths ==
    {<<"/", "home", "u", "bin", "app">>, <<"/", "root", "app">>,
     <<"/", "Users", "u", "app">>, <<"/", "usr", "local", "bin", "app">>}

RootDirs ==
    {<<>>, <<"/", "opt", "shiv">>, <<"~", "cache">>, <<"$", "SHIV_ROOT">>,
     <<"$">>}

Unset == [set |-> FALSE, value |-> <<>>]
SetTo(v) == [set |-> TRUE, value |-> v]

Environs ==
    {[n \in {<<"SHIV_ROOT">>, <<"XDG_CACHE_HOME">>, <<"LOCALAPPDATA">>} |->
        CASE n = <<"SHIV_ROOT">> -> a
          [] n = <<"XDG_CACHE_HOME">> -> b
          [] OTHER -> c] :
     a \in {Unset, SetTo(<<>>), SetTo(<<"/", "srv", "shiv">>),
            SetTo(<<"~", "x">>)},
     b \in {Unset, SetTo(<<" ">>), SetTo(<<"/", "xdg">>)},
     c \in {Unset, SetTo(<<"C:", "Local">>)}}

\* the system cache directory exists; below it anything may be missing
SystemCacheDepth == 3
SitePackagesDepth == 6

InitCache ==
    resolver \in
        [archive_path : ArchivePaths,
         root_dir : RootDirs,
         platform_compat : BOOLEAN,
         build_id : {"1"},
         environ : Environs,
         platform : {"linux", "darwin", "win32", "sunos5"},
         fs_extant : SystemCacheDepth..SitePackagesDepth,
         fs_writable : SUBSET (SystemCacheDepth..(SitePackagesDepth - 1)),
         cache_pc : {"start"},
         cache_result : {NoPath},
         platform_called : {FALSE}]

\* bootstrap, line 320: cache_path(archive_path, env.root, env.platform_root,
\* env.build_id)
ResolveCachePath ==
    /\ CacheOnly
    /\ cache_pc = "start"
    /\ LET r == CachePath(archive_path, root_dir, platform_compat, build_id)
       IN resolver' = [resolver EXCEPT !.cache_result = r.path,
                                       !.platform_called = r.called,
                                       !.cache_pc = "resolved"]

NextCache == ResolveCachePath

(***************************************************************************)
(* The preamble and the entry dispatch of bootstrap, lines 359-386, and    *)
(* run, lines 22-39.                                                       *)
(***************************************************************************)
PyNone == "<None>"

\* the names of Environment.MODULE, ENTRY_POINT and CONSOLE_SCRIPT
RoutingVars == {"SHIV_MODULE", "SHIV_ENTRY_POINT", "SHIV_CONSOLE_SCRIPT"}
OtherVars == {"PATH"}

\* Python's truth value of an optional string
Truthy(x) == x # PyNone /\ x # ""

\* preamble_bin.suffix
Suffix(name) ==
    CASE name = "setup.py" -> ".py"
      [] name = "setup.sh" -> ".sh"
      [] OTHER -> ""

\* how a preamble may end: run in this process by runpy.run_path it returns,
\* raises, or raises SystemExit; run by subprocess.run it ends with a zero
\* or non-zero status or by a signal, or cannot be started
PreambleOutcomes(name) ==
    IF Suffix(name) = ".py"
       THEN {"returned", "raised", "exit_nonzero", "exit_zero"}
       ELSE {"status_zero", "status_nonzero", "signalled", "not_started"}

\* whether bootstrap goes on after the preamble: an exception of
\* runpy.run_path or subprocess.run ends it; the CompletedProcess that
\* subprocess.run returns is not looked at
GoesOn(out) ==
    out \in {"returned", "status_zero", "status_nonzero", "signalled"}

\* the exit status when the preamble step ends the process
PreambleExit(out) == IF out = "exit_zero" THEN 0 ELSE 1

ModeSelectEntryFirst(interpreter, entry_point, script) ==
    IF ~interpreter /\ entry_point # PyNone THEN "entry_point"
    ELSE IF ~interpreter /\ script # PyNone THEN "script"
    ELSE "interpreter"

ModeSelectIgnoringInterpreter(interpreter, entry_point, script) ==
    IF entry_point # PyNone /\ ~Truthy(script) THEN "entry_point"
    ELSE IF script # PyNone THEN "script"
    ELSE "interpreter"

\* lines 375-386: which of run(import_string(...)), run(partial(...)) and
\* execute_interpreter() is reached
ModeSelect(interpreter, entry_point, script) ==
    IF ~interpreter /\ entry_point # PyNone /\ ~Truthy(script)
       THEN "entry_point"
    ELSE IF ~interpreter /\ script # PyNone THEN "script"
    ELSE "interpreter"

ScrubbedModuleOnly(names) == names \ {"SHIV_MODULE"}

\* run(module): the three variables are deleted when present
Scrubbed(names) == names \ RoutingVars

\* what module() may return or raise: an entry point returns None or an
\* int; runpy.run_path returns the script's globals, or the script exits
Returns(mode) ==
    IF mode = "entry_point" THEN {"None", "0", "1"}
    ELSE {"dict", "SystemExit(0)", "SystemExit(1)"}

\* sys.exit(value): None is 0, an int is itself, another object is 1
ExitStatus(ret) == IF ret \in {"None", "0", "SystemExit(0)"} THEN 0 ELSE 1

NoStatus == -1

InitDispatch ==
    dispatcher \in
        [env_interpreter : BOOLEAN,
         env_entry_point : {PyNone, "pkg.cli:main"},
         env_script : {PyNone, "", "tool"},
         env_preamble : {PyNone, "", "setup.py", "setup.sh"},
         os_environ : SUBSET (RoutingVars \cup OtherVars),
         disp_pc : {"start"},
         run_module : {"none"},
         environ_before : {{}},
         environ_at_call : {{}},
         returned : {"none"},
         preamble_result : {"none"},
         invoked : {"none"},
         exit_status : {NoStatus}]

\* lines 359-373
RunPreamble ==
    /\ DispatchOnly
    /\ disp_pc = "start"
    /\ IF Truthy(env_preamble)
          THEN \E out \in PreambleOutcomes(env_preamble) :
                  dispatcher' =
                      [dispatcher EXCEPT
                          !.environ_before = os_environ,
                          !.preamble_result = out,
                          !.disp_pc = IF GoesOn(out) THEN "select"
                                      ELSE "terminated",
                          !.exit_status = IF GoesOn(out) THEN exit_status
                                          ELSE PreambleExit(out)]
          ELSE dispatcher' = [dispatcher EXCEPT
                                 !.environ_before = os_environ,
                                 !.preamble_result = "no_preamble",
                                 !.disp_pc = "select"]

\* line 380: run(import_string(env.entry_point)) up to the call of run;
\* import_string may raise
InvokeEntryPoint ==
    /\ DispatchOnly
    /\ disp_pc = "select"
    /\ ModeSelect(env_interpreter, env_entry_point, env_script) = "entry_point"
    /\ \/ dispatcher' = [dispatcher EXCEPT !.disp_pc = "terminated",
                                             !.exit_status = 1]
       \/ dispatcher' = [dispatcher EXCEPT !.run_module = "entry_point",
                                             !.disp_pc = "run"]

\* line 383: run(partial(runpy.run_path, ..., run_name="__main__")) up to
\* the call of run
RunScript ==
    /\ DispatchOnly
    /\ disp_pc = "select"
    /\ ModeSelect(env_interpreter, env_entry_point, env_script) = "script"
    /\ dispatcher' = [dispatcher EXCEPT !.run_module = "script",
                                        !.disp_pc = "run"]

\* run, lines 30-37: the three deletions, each under suppress(KeyError)
Scrub ==
    /\ DispatchOnly
    /\ disp_pc = "run"
    /\ dispatcher' = [dispatcher EXCEPT !.os_environ = Scrubbed(os_environ),
                                        !.disp_pc = "scrubbed"]

\* run, line 39: module() is called
CallModule ==
    /\ DispatchOnly
    /\ disp_pc = "scrubbed"
    /\ dispatcher' = [dispatcher EXCEPT !.invoked = run_module,
                                        !.environ_at_call = os_environ,
                                        !.disp_pc = "called"]

\* run, line 39: sys.exit(...) with what module() returned; a SystemExit
\* raised by module() ends the process the same way
SysExit ==
    /\ DispatchOnly
    /\ disp_pc = "called"
    /\ \E ret \in Returns(run_module) :
          dispatcher' = [dispatcher EXCEPT !.returned = ret,
                                           !.exit_status = ExitStatus(ret),
                                           !.disp_pc = "exited"]

\* line 386: execute_interpreter()
ExecuteInterpreter ==
    /\ DispatchOnly
    /\ disp_pc = "select"
    /\ ModeSelect(env_interpreter, env_entry_point, env_script) = "interpreter"
    /\ dispatcher' = [dispatcher EXCEPT !.invoked = "interpreter",
                                        !.disp_pc = "interactive"]

NextDispatch ==
    \/ RunPreamble
    \/ InvokeEntryPoint
    \/ RunScript
    \/ Scrub
    \/ CallModule
    \/ SysExit
    \/ ExecuteInterpreter

(***************************************************************************)
(* The order of the steps of bootstrap, lines 309-386, in one process.     *)
(***************************************************************************)
\* ensure_no_modify under `if env.no_modify:`: a violating file raises
\* RuntimeError out of bootstrap
VerifyOutcomeLenient(no_modify, violation) == "verified"

VerifyOutcome(no_modify, violation) ==
    IF no_modify /\ violation THEN "error" ELSE "verified"

InitPipeline ==
    pipeline \in
        {r \in [env_force_extract : BOOLEAN,
                env_no_modify : BOOLEAN,
                env_extend_pythonpath : BOOLEAN,
                has_preamble : BOOLEAN,
                cache_exists : BOOLEAN,
                modified : BOOLEAN,
                stage : {"start"},
                log : {<<>>},
                raised : {"none"}] :
            r.modified => r.cache_exists}

\* lines 319-330: extraction on a first run or under force; what it
\* publishes is the archive's own files
ExtractStage ==
    /\ PipelineOnly
    /\ stage = "start"
    /\ IF ~cache_exists \/ env_force_extract
          THEN pipeline' = [pipeline EXCEPT
                               !.cache_exists = TRUE,
                               !.modified = FALSE,
                               !.log = Append(log, "extract_site_packages"),
                               !.stage = "extracted"]
          ELSE pipeline' = [pipeline EXCEPT !.stage = "extracted"]

\* lines 332-349: site.addsitedir(site_packages) and the reorder
ExtendPathStage ==
    /\ PipelineOnly
    /\ stage = "extracted"
    /\ pipeline' = [pipeline EXCEPT !.log = Append(log, "addsitedir"),
                                    !.stage = "path_extended"]

\* lines 351-353
VerifyStage ==
    /\ PipelineOnly
    /\ stage = "path_extended"
    /\ LET out == VerifyOutcome(env_no_modify, modified) IN
         pipeline' = [pipeline EXCEPT
                         !.log = IF env_no_modify
                                    THEN Append(log, "ensure_no_modify")
                                    ELSE log,
                         !.raised = IF out = "error" THEN "RuntimeError"
                                    ELSE raised,
                         !.stage = out]

\* lines 355-357
ExportStage ==
    /\ PipelineOnly
    /\ stage = "verified"
    /\ pipeline' = [pipeline EXCEPT
                       !.log = IF env_extend_pythonpath
                                  THEN Append(log, "extend_python_path")
                                  ELSE log,
                       !.stage = "exported"]

\* lines 359-373: the preamble returns, or ends bootstrap with its error
PreambleStage ==
    /\ PipelineOnly
    /\ stage = "exported"
    /\ IF has_preamble
          THEN \E ok \in BOOLEAN :
                  pipeline' = [pipeline EXCEPT
                                  !.log = Append(log, "preamble"),
                                  !.raised = IF ok THEN raised
                                             ELSE "preamble error",
                                  !.stage = IF ok THEN "preamble_done"
                                            ELSE "error"]
          ELSE pipeline' = [pipeline EXCEPT !.stage = "preamble_done"]

\* lines 375-386: the entry point, the script or the interactive session
DispatchStage ==
    /\ PipelineOnly
    /\ stage = "preamble_done"
    /\ pipeline' = [pipeline EXCEPT !.log = Append(log, "dispatch"),
                                    !.stage = "dispatched"]

NextPipeline ==
    \/ ExtractStage
    \/ ExtendPathStage
    \/ VerifyStage
    \/ ExportStage
    \/ PreambleStage
    \/ DispatchStage

(***************************************************************************)
(* extend_python_path, lines 285-294. A string is the sequence of its      *)
(* characters.                                                             *)
(***************************************************************************)
\* os.pathsep
PathSep == ":"

\* "PYTHONPATH" not in environ
NoValue == <<"<unset>">>

\* str.split(os.pathsep): the pieces between the separators; the empty
\* string gives one empty piece
RECURSIVE Split(_)
Split(str) ==
    IF \E i \in 1..Len(str) : str[i] = PathSep
       THEN LET i == CHOOSE i \in 1..Len(str) :
                        /\ str[i] = PathSep
                        /\ \A j \in 1..(i - 1) : str[j] # PathSep
            IN <<SubSeq(str, 1, i - 1)>> \o Split(SubSeq(str, i + 1, Len(str)))
       ELSE <<str>>

\* os.pathsep.join(list)
RECURSIVE Join(_)
Join(list) ==
    IF list = <<>> THEN <<>>
    ELSE IF Len(list) = 1 THEN list[1]
    ELSE list[1] \o <<PathSep>> \o Join(Tail(list))

\* list.index(x)
Index(list, x) == CHOOSE i \in 1..Len(list) :
                      list[i] = x /\ \A j \in 1..(i - 1) : list[j] # x

Unsorted(S, list) == list

\* sorted(S, key=list.index), for a set S of elements of list
RECURSIVE Sorted(_, _)
Sorted(S, list) ==
    IF S = {} THEN <<>>
    ELSE LET x == CHOOSE x \in S :
                      \A y \in S : Index(list, x) <= Index(list, y)
         IN <<x>> \o Sorted(S \ {x}, list)

\* extend_python_path(environ, additional_paths): the new value of
\* environ["PYTHONPATH"]
ExtendPythonPath(value, additional) ==
    LET python_path == (IF value = NoValue THEN <<>> ELSE Split(value))
                       \o additional
    IN Join(Sorted(Range(python_path), python_path))

\* the characters of a value, and the directories bootstrap may add: the
\* last has the separator in its name
EnvChars == {"a", "b", PathSep}
NewPathEntries == {<<"a">>, <<"b">>, <<"a", PathSep, "b">>}

InitExport ==
    \E v \in SeqsUpTo(EnvChars, MaxEnvLen) \cup {NoValue},
       a \in SeqsUpTo(NewPathEntries, MaxAdditional) :
        exporter = [pythonpath |-> v, additional_paths |-> a, calls |-> 0,
                    before |-> v, first |-> NoValue]

\* one call of extend_python_path(os.environ, additional_paths)
ExtendPythonPathCall ==
    /\ ExportOnly
    /\ calls \in 0..(MaxCalls - 1)
    /\ LET v == ExtendPythonPath(pythonpath, additional_paths) IN
         exporter' = [exporter EXCEPT
                         !.pythonpath = v,
                         !.calls = calls + 1,
                         !.first = IF calls = 0 THEN v ELSE pythonpath_first]

NextExport == ExtendPythonPathCall

(***************************************************************************)
(* The specifications: each runs one part of bootstrap and leaves the      *)
(* state of the other parts alone.                                         *)
(***************************************************************************)
vars == <<coreVars, searchPath, integrity, resolver, dispatcher, pipeline,
          exporter>>

CoreIdle ==
    /\ pc = [p \in Procs |-> "done"]
    /\ force = [p \in Procs |-> FALSE]
    /\ compile_pyc = FALSE
    /\ idx = [p \in Procs |-> 0]
    /\ lock = NoProc
    /\ preexisting = TRUE
    /\ lockFile = TRUE
    /\ parent = TRUE
    /\ target = Published
    /\ tmp = Absent
    /\ how = [p \in Procs |-> "precheck"]
    /\ wrote = {}
    /\ fault = [p \in Procs |-> "none"]
    /\ ctx = [p \in Procs |-> [second |-> FALSE, afterKill |-> FALSE]]

PathIdle ==
    searchPath = [sys_path |-> <<>>, pth_dirs |-> <<>>, path_pc |-> "idle",
                  sys_path_before |-> <<>>, sys_path_added |-> <<>>,
                  new_paths |-> <<>>]

VerifyIdle ==
    integrity = [files |-> <<>>, hashes |-> <<>>, orig |-> <<>>,
                 changed |-> {}, verdict |-> "idle", last_fail |-> "none"]

CacheIdle ==
    resolver = [archive_path |-> <<>>, root_dir |-> <<>>,
                platform_compat |-> FALSE, build_id |-> "1",
                environ |-> <<>>, platform |-> "linux",
                fs_extant |-> SitePackagesDepth, fs_writable |-> {},
                cache_pc |-> "idle", cache_result |-> NoPath,
                platform_called |-> FALSE]

DispatchIdle ==
    dispatcher = [env_interpreter |-> FALSE, env_entry_point |-> PyNone,
                  env_script |-> PyNone, env_preamble |-> PyNone,
                  os_environ |-> {}, disp_pc |-> "idle",
                  run_module |-> "none", environ_before |-> {},
                  environ_at_call |-> {}, returned |-> "none",
                  preamble_result |-> "none", invoked |-> "none",
                  exit_status |-> NoStatus]

PipelineIdle ==
    pipeline = [env_force_extract |-> FALSE, env_no_modify |-> FALSE,
                env_extend_pythonpath |-> FALSE, has_preamble |-> FALSE,
                cache_exists |-> TRUE, modified |-> FALSE, stage |-> "idle",
                log |-> <<>>, raised |-> "none"]

ExportIdle ==
    exporter = [pythonpath |-> NoValue, additional_paths |-> <<>>,
                calls |-> MaxCalls, before |-> NoValue, first |-> NoValue]

OthersIdle == PipelineIdle /\ ExportIdle

Init ==
    InitCore /\ PathIdle /\ VerifyIdle /\ CacheIdle /\ DispatchIdle
    /\ OthersIdle
Next == NextCore
Spec == Init /\ [][Next]_vars

\* N processes none of which fails or is killed. Each process that can
\* take a step eventually takes one: the scheduler runs every process, and
\* the lock, once free, is given to a process waiting for it.
NextLive == \E p \in Procs : Step(p)
Fairness == \A p \in Procs : WF_vars(Step(p))
SpecLive == Init /\ [][NextLive]_vars /\ Fairness

InitSearchPath ==
    InitPath /\ CoreIdle /\ VerifyIdle /\ CacheIdle /\ DispatchIdle
    /\ OthersIdle
SpecPath == InitSearchPath /\ [][NextPath]_vars

InitIntegrity ==
    InitVerify /\ CoreIdle /\ PathIdle /\ CacheIdle /\ DispatchIdle
    /\ OthersIdle
SpecVerify == InitIntegrity /\ [][NextVerify]_vars

InitResolve ==
    InitCache /\ CoreIdle /\ PathIdle /\ VerifyIdle /\ DispatchIdle
    /\ OthersIdle
SpecCache == InitResolve /\ [][NextCache]_vars

InitEntry ==
    InitDispatch /\ CoreIdle /\ PathIdle /\ VerifyIdle /\ CacheIdle
    /\ OthersIdle

InitOrder ==
    InitPipeline /\ CoreIdle /\ PathIdle /\ VerifyIdle /\ CacheIdle
    /\ DispatchIdle /\ ExportIdle
SpecPipeline == InitOrder /\ [][NextPipeline]_vars

InitPythonPath ==
    InitExport /\ CoreIdle /\ PathIdle /\ VerifyIdle /\ CacheIdle
    /\ DispatchIdle /\ PipelineIdle
SpecExport == InitPythonPath /\ [][NextExport]_vars
SpecDispatch == InitEntry /\ [][NextDispatch]_vars

(***************************************************************************)
(* Claims about the extraction pipeline.                                   *)
(***************************************************************************)
AllUnforced == \A p \in Procs : ~force[p]
Extractors == {p \in Procs : how[p] = "extracted"}

\* C1: N processes bootstrapping the same build id from an absent cache,
\* force unset in all: at most one process ever publishes, and once all of
\* them are past the extraction step exactly one has extracted and
\* published; every other found the cache present, in the unlocked check or
\* in the check under the lock, and wrote nothing.
C1_ExactlyOneExtraction ==
    (~preexisting /\ AllUnforced) =>
        /\ Cardinality(Extractors) <= 1
        /\ (\A p \in Procs : pc[p] \in {"read", "done"}) =>
              \E p \in Procs :
                  /\ Extractors = {p}
                  /\ wrote = {p}
                  /\ \A q \in Procs \ {p} : how[q] \in {"precheck", "recheck"}

C1_Witness ==
    /\ ~preexisting /\ AllUnforced
    /\ \A p \in Procs : pc[p] = "done"
    /\ \E p, q \in Procs : how[p] = "extracted" /\ how[q] = "recheck"

\* C2: with force unset in all processes, target_dir is absent or holds
\* every dependency-tree entry of the archive, in every reachable state.
C2_NeverPartial ==
    AllUnforced => (target = Absent \/ Populated(target))

C2_Witness ==
    /\ AllUnforced
    /\ target = Absent
    /\ tmp.files # {} /\ tmp.files # Deps
    /\ \E p \in Procs : pc[p] = "extract"

\* C6: a process was killed after its temporary directory was populated and
\* before its move was done; a later run that goes through undisturbed
\* (every other process has ended, none by an error) ends with target_dir
\* published and holding every entry.
C6_PublishedAfterKill ==
    \A p \in Procs :
        ( /\ pc[p] = "done"
          /\ ctx[p].afterKill
          /\ \A q \in Procs \ {p} : pc[q] \in {"done", "killed"} )
        => Populated(target)

\* C8: a run with force unset that starts after an earlier such run has
\* ended does not enter the extraction routine, and its steps leave
\* target_dir, the temporary directory and the lock file as they were.
C8_SecondRun(p) == ctx[p].second /\ ~force[p] /\ pc[p] # "start"

C8_Idempotent ==
    /\ [](\A p \in Procs :
            C8_SecondRun(p) => (how[p] = "precheck" /\ p \notin wrote))
    /\ [][\A p \in Procs :
            (pc'[p] # pc[p] /\ C8_SecondRun(p)')
                => UNCHANGED <<target, tmp, lockFile, lock, parent>>]_vars

C8_Witness ==
    /\ ~preexisting
    /\ \E p, q \in Procs :
          /\ pc[p] = "done" /\ C8_SecondRun(p)
          /\ pc[q] = "done" /\ how[q] = "extracted"
          /\ Populated(target)

\* C9: a process that has left extract_site_packages, normally, by the
\* skip or by an error, does not hold the lock: the lock is held only by a
\* process inside the with block, so a waiting process can take it.
C9_LockReleased ==
    /\ \A p \in Procs : pc[p] \notin LockedPcs => lock # p
    /\ \A p \in Procs :
          (pc[p] = "acquire" /\ \A q \in Procs : pc[q] \notin LockedPcs)
              => ENABLED Acquire(p)

C9_Witness ==
    \E p, q \in Procs :
        /\ pc[p] = "failed" /\ fault[p] = "move"
        /\ lock = q /\ pc[q] = "extract"

\* C11: while a process is in its reading phase, past the extraction step,
\* target_dir is present and holds every entry, whatever the other
\* processes do, those that re-extract with force set included.
C11_ReadersSeeTarget ==
    \A p \in Procs : pc[p] = "read" => Populated(target)

\* the processes inside the with block
Inside == {p \in Procs : pc[p] \in LockedPcs}

\* C12: at most one process is inside the lock-guarded section, it is the
\* one holding the lock, and every step that changes the temporary
\* directory or target_dir is a step of that process.
C12_MutualExclusion ==
    /\ [](Cardinality(Inside) <= 1 /\ \A p \in Inside : lock = p)
    /\ [][(target' # target \/ tmp' # tmp) =>
            /\ lock \in Procs
            /\ pc[lock] \in LockedPcs
            /\ \A q \in Procs \ {lock} : pc'[q] = pc[q]]_vars

C12_Witness ==
    \E p, q \in Procs :
        /\ lock = p /\ pc[p] = "rmtree" /\ target # Published
        /\ tmp.files = Deps
        /\ pc[q] = "acquire" /\ force[q]

\* C20: N processes bootstrapping the same build id, none failing inside
\* the with block, under fair scheduling and a fair lock: every process
\* eventually leaves the extraction step, target_dir is eventually
\* published, and with force unset in all it stays published.
C20_Progress ==
    /\ \A p \in Procs : <>(pc[p] \in {"read", "done"})
    /\ <>Populated(target)
    /\ AllUnforced => <>[]Populated(target)

C20_Witness ==
    /\ ~preexisting
    /\ Populated(target)
    /\ lock = NoProc
    /\ \E p, q \in Procs :
          /\ pc[p] = "done" /\ how[p] = "extracted"
          /\ pc[q] = "read" /\ how[q] = "recheck"

\* C13: with compile_pyc set, a pre-compilation step that fails, by its
\* result or by an error, does not make extract_site_packages end with an
\* error: no process ends failed at the pre-compilation step.
C13_CompileFailureNotFatal ==
    \A p \in Procs : ~(pc[p] = "failed" /\ fault[p] = "compile")

(***************************************************************************)
(* Claims about the search path extension.                                 *)
(***************************************************************************)
\* C3: with the first site-packages or dist-packages entry of the path at
\* index k (from 0, k = 0 included), after registration and reorder the
\* entries registration appended sit at index k onwards, in the order they
\* were appended, the entries before k keep their places, and the entries
\* that were at k and later follow in their previous order.
C3_NewEntriesBeforeFirstSitedir ==
    LET k == GetFirstSitedirIndex(sys_path_before)
        appended == Slice(sys_path_added, Len(sys_path_before),
                          Len(sys_path_added))
    IN (path_pc = "extended" /\ k # None) =>
          sys_path = Slice(sys_path_before, 0, k)
                     \o appended
                     \o Slice(sys_path_before, k, Len(sys_path_before))

(***************************************************************************)
(* Claims about the integrity check.                                       *)
(***************************************************************************)
\* the Python sources found whose hash differs from the recorded one, and
\* those found with no recorded hash
HashDiffers == {f \in Rglob : hashes[f] # NoHash /\ hashes[f] # Sha256(files[f])}
Unrecorded == {f \in Rglob : hashes[f] = NoHash}
ModifiedNow == {f \in AllFiles : files[f] # orig[f]}
OrigClean == \A f \in PyFiles : orig[f] # Missing => hashes[f] = Sha256(orig[f])

\* C7: verification fails exactly when some source file found below the
\* root has a hash other than the recorded one or no recorded hash, and the
\* error names such a file. So, on a cache that verified as extracted,
\* changing one recorded source file makes verification fail naming that
\* file, and with the content restored verification passes.
C7_FailsIffViolation ==
    verdict \notin {"none", "idle"} =>
        /\ (verdict # "ok") <=> (HashDiffers \cup Unrecorded # {})
        /\ verdict # "ok" => verdict \in HashDiffers \cup Unrecorded
        /\ \A f \in PyFiles :
              (OrigClean /\ ModifiedNow = {f}) => verdict = f
        /\ (OrigClean /\ ModifiedNow = {}) => verdict = "ok"

C7_Witness ==
    /\ OrigClean
    /\ verdict = "ok"
    /\ ModifiedNow = {}
    /\ last_fail \in changed
    /\ hashes[last_fail] # NoHash

(***************************************************************************)
(* Claims about the cache path resolution.                                 *)
(***************************************************************************)
\* the configured root after the indirection through the environment: the
\* variable's value, or the rest of the string when the variable is unset
Indirected ==
    IF Head(root_dir) = "$"
       THEN (IF Tail(root_dir) \in DOMAIN environ /\ environ[Tail(root_dir)].set
                THEN environ[Tail(root_dir)].value
                ELSE Tail(root_dir))
       ELSE root_dir

Suffixed(root) == root \o <<NameBuild(Name(archive_path), build_id)>>

\* C10, as stated: with a non-empty explicit root, platform_cache is not
\* called, whatever the platform flag, and the result is the root after the
\* indirection, suffixed with <archive-basename>_<build-id>.
C10_ExplicitRootVerbatim ==
    (cache_pc = "resolved" /\ root_dir # <<>>) =>
        /\ ~platform_called
        /\ cache_result = Suffixed(Indirected)

\* C10, amended: the result is the root after the indirection and with a
\* leading "~" replaced by the user's home directory, suffixed as above.
C10_ExplicitRootWins ==
    (cache_pc = "resolved" /\ root_dir # <<>>) =>
        /\ ~platform_called
        /\ cache_result =
              Suffixed(IF Indirected # <<>> /\ Head(Indirected) = "~"
                          THEN Home \o Tail(Indirected) ELSE Indirected)

C10_Witness ==
    /\ cache_pc = "resolved"
    /\ root_dir = <<"$", "SHIV_ROOT">>
    /\ ~environ[<<"SHIV_ROOT">>].set
    /\ platform_compat
    /\ PlatformCache(archive_path, build_id) = <<"/", "var", "cache", "app">>
    /\ cache_result = <<"SHIV_ROOT", "app_1">>

\* the platform has a system-wide cache root
SystemSupported == platform \in {"linux", "darwin"}

\* the archive lies outside the user-owned directories of the platform
OutsideUserDirs ==
    \/ /\ platform = "linux"
       /\ SubSeq(archive_path, 1, 2) \notin {<<"/", "home">>, <<"/", "root">>}
    \/ /\ platform = "darwin"
       /\ SubSeq(archive_path, 1, 2) # <<"/", "Users">>

\* the would-be cache location below the system-wide root
SystemCache ==
    (IF platform = "linux" THEN <<"/", "var", "cache">>
     ELSE <<"/", "Library", "Caches">>) \o <<"app", "app_1">>

\* a dependency tree exists there already
TreeExists == fs_extant >= Len(SystemCache) + 1

\* the nearest existing ancestor of the location (itself included) is
\* writable
NearestAncestorWritable ==
    (IF fs_extant < Len(SystemCache) THEN fs_extant ELSE Len(SystemCache))
        \in fs_writable

\* the user-specific cache root of the platform, where it has one
UserCacheRoot ==
    CASE platform = "linux" ->
            IF environ[<<"XDG_CACHE_HOME">>].set
               /\ environ[<<"XDG_CACHE_HOME">>].value \notin {<<>>, <<" ">>}
               THEN environ[<<"XDG_CACHE_HOME">>].value
               ELSE Home \o <<".cache">>
      [] platform = "darwin" -> Home \o <<"Library", "Caches">>
      [] platform = "win32" ->
            IF environ[<<"LOCALAPPDATA">>].set
               THEN environ[<<"LOCALAPPDATA">>].value
               ELSE Home \o <<"AppData", "Local">>

\* C18: with no explicit root and the platform fallback allowed, the
\* system-wide cache root is chosen exactly when the platform has one, the
\* archive lies outside the user-owned directories, and a dependency tree
\* exists at the would-be location or its nearest existing ancestor is
\* writable; otherwise the user-specific root is chosen, and on a platform
\* with none the dotfile directory under the user's home.
C18_PlatformCacheAdoption ==
    (cache_pc = "resolved" /\ root_dir = <<>> /\ platform_compat) =>
        LET system == /\ SystemSupported
                      /\ OutsideUserDirs
                      /\ (TreeExists \/ NearestAncestorWritable)
        IN /\ platform_called
           /\ system <=> (SystemSupported /\ cache_result = SystemCache)
           /\ (~system /\ platform \in {"linux", "darwin", "win32"}) =>
                 cache_result = UserCacheRoot \o <<"app", "app_1">>
           /\ platform \notin {"linux", "darwin", "win32"} =>
                 cache_result = Home \o <<".shiv", "app_1">>

C18_Witness ==
    /\ cache_pc = "resolved" /\ root_dir = <<>> /\ platform_compat
    /\ platform = "linux"
    /\ archive_path = <<"/", "usr", "local", "bin", "app">>
    /\ fs_extant = SystemCacheDepth
    /\ fs_writable = {SystemCacheDepth}
    /\ cache_result = <<"/", "var", "cache", "app", "app_1">>

(***************************************************************************)
(* Claims about the preamble and the entry dispatch.                       *)
(***************************************************************************)
BothConfigured ==
    ~env_interpreter /\ env_entry_point # PyNone
    /\ env_script # PyNone /\ env_script # ""

\* C4, as stated: with interactive mode not forced and both an entry point
\* and a script name configured, the dispatcher invokes the entry point and
\* never the script.
C4_EntryPointOverScript ==
    (BothConfigured /\ invoked # "none") => invoked = "entry_point"

\* C4, amended: with interactive mode not forced and both an entry point
\* and a non-empty script name configured, the dispatcher runs the script
\* and never invokes the entry point.
C4_ScriptOverEntryPoint ==
    BothConfigured =>
        /\ invoked \in {"none", "script"}
        /\ disp_pc \in {"exited", "interactive"} => invoked = "script"

C4_Witness ==
    /\ BothConfigured
    /\ disp_pc = "exited"
    /\ invoked = "script"
    /\ os_environ \cap RoutingVars = {}

\* C5: a preamble that ends abnormally or with a non-zero status, run in
\* this process or as a subprocess, ends bootstrap: the entry point, the
\* script and the interactive session are not reached.
PreambleFailed ==
    preamble_result \in {"raised", "exit_nonzero", "status_nonzero",
                         "signalled", "not_started"}

C5_PreambleFailureFatal ==
    PreambleFailed => (invoked = "none" /\ disp_pc = "terminated")

\* the dispatcher has made its choice
Dispatched == disp_pc \notin {"start", "select", "terminated"}

\* C17: with interactive mode forced, whatever the entry point and the
\* script, neither is invoked and the dispatcher ends in the interactive
\* session, a configured preamble having run first; with interactive mode
\* not forced and neither an entry point nor a script configured, the
\* dispatcher ends in the interactive session too.
C17_InteractiveFallback ==
    (env_interpreter
     \/ (env_entry_point = PyNone /\ env_script = PyNone)) =>
        /\ invoked \in {"none", "interpreter"}
        /\ run_module = "none"
        /\ Dispatched => (disp_pc = "interactive" /\ invoked = "interpreter")
        /\ (Dispatched /\ Truthy(env_preamble)) =>
              preamble_result \in PreambleOutcomes(env_preamble)
        /\ disp_pc = "terminated" => ~GoesOn(preamble_result)

C17_Witness ==
    /\ env_interpreter
    /\ env_entry_point # PyNone
    /\ env_script = "tool"
    /\ env_preamble = "setup.py" /\ preamble_result = "returned"
    /\ disp_pc = "interactive"
    /\ invoked = "interpreter"

Position(step) ==
    IF \E i \in 1..Len(log) : log[i] = step
       THEN CHOOSE i \in 1..Len(log) : log[i] = step
       ELSE 0

\* C14: with the integrity check enabled, the dependency directory is
\* registered into the search path (and its .pth files processed) only
\* after the integrity verifier has run and passed.
C14_VerifyBeforeRegistration ==
    (env_no_modify /\ Position("addsitedir") > 0) =>
        /\ Position("ensure_no_modify") > 0
        /\ Position("ensure_no_modify") < Position("addsitedir")

\* C15: with no_modify set and a violating file in the cache, bootstrap
\* ends with the verifier's error, and the export to PYTHONPATH, the
\* preamble and the dispatch never run.
C15_ViolationIsFatal ==
    (env_no_modify /\ modified
     /\ stage \notin {"start", "extracted", "path_extended"}) =>
        /\ stage = "error"
        /\ raised = "RuntimeError"
        /\ \A i \in 1..Len(log) :
              log[i] \notin {"extend_python_path", "preamble", "dispatch"}

C15_Witness ==
    /\ env_no_modify /\ modified
    /\ env_extend_pythonpath /\ has_preamble
    /\ stage = "error"
    /\ Position("ensure_no_modify") > 0

(***************************************************************************)
(* Claims about extend_python_path.                                        *)
(***************************************************************************)
\* the entries of a list, each at its first occurrence only
RECURSIVE FirstOccurrences(_)
FirstOccurrences(list) ==
    IF list = <<>> THEN <<>>
    ELSE LET front == SubSeq(list, 1, Len(list) - 1)
             last == list[Len(list)]
         IN FirstOccurrences(front)
            \o (IF last \in Range(front) THEN <<>> ELSE <<last>>)

\* the entries of PYTHONPATH before the first call
ExistingEntries ==
    IF pythonpath_before = NoValue THEN <<>> ELSE Split(pythonpath_before)

\* the variable after one call: the existing entries, then the additional
\* ones not among them, each at its first occurrence, joined
MergedOnce ==
    calls >= 1 =>
        pythonpath_first =
            Join(FirstOccurrences(ExistingEntries)
                 \o NotIn(FirstOccurrences(additional_paths), ExistingEntries))

\* a later call with the same additional entries leaves the variable alone
SecondCallNoChange == calls >= 2 => pythonpath = pythonpath_first

SeparatorFree ==
    \A i \in 1..Len(additional_paths) :
        \A j \in 1..Len(additional_paths[i]) :
            additional_paths[i][j] # PathSep

====
